---------------------------- MODULE Spec2Model ----------------------------
(***************************************************************************)
(* A model of compressure/main.py: the slice sequencer                     *)
(* (VideoSliceBufferReversible), the persistence-cached compress / slice   *)
(* operations of CompressureSystem, generate_timeline_function,             *)
(* construct_encoder_config and main.                                      *)
(***************************************************************************)
EXTENDS Integers, Sequences, FiniteSets, TLC

VARIABLES
    constructed,           \* a VideoSliceBufferReversible exists
    ctor,                  \* the arguments its constructor received
    buffer_forward,        \* self.buffer_forward (deque, head first)
    buffer_backward,       \* self.buffer_backward
    forward,               \* self.forward
    index,                 \* self.index
    velocity_numerator,    \* self._velocity_numerator
    velocity_denominator,  \* self._velocity_denominator
    last,                  \* the last sequencer call: arguments, state before, outcome
    manifest,              \* the persistence manifest: per fingerprint, the records appended
    invocations,           \* per fingerprint, how often its producer was invoked
    lastCache,             \* the last compress / slice call: state before, outcome, result
    timeline,              \* the last generate_timeline_function call: arguments and result
    encoder_config_options,  \* VideoCompressionDefaults.encoder_config_options
    lastConfig,            \* the last construct_encoder_config call: arguments and result
    pc,                    \* main: the statement it is about to run
    args,                  \* main: the parsed command line
    locals,                \* main: its local variables
    concatenated,          \* the frame lists concat_videos was called with
    raised,                \* main: the exception that ended it
    pipe,                  \* the two source pipelines run side by side: position, locals
    loaded                 \* the manifest the two pipelines started from

seqVars == <<constructed, ctor, buffer_forward, buffer_backward, forward, index,
             velocity_numerator, velocity_denominator, last>>

cacheVars == <<manifest, invocations, lastCache>>

configVars == <<encoder_config_options, lastConfig>>

mainVars == <<pc, args, locals, concatenated, raised>>

\* what the operations called on their own do not touch
pipeVars == <<pipe, loaded>>

runVars == <<mainVars, pipeVars>>

vars == <<seqVars, cacheVars, timeline, configVars, runVars>>

-----------------------------------------------------------------------------
(* Bounds of the model *)

\* slices per slicer: 0 .. MaxSlices
MaxSlices == 2
\* targets of step(to=...) range over -MaxOvershoot .. MaxSlices + MaxOvershoot
MaxOvershoot == 1
\* velocities set directly have numerators -MaxVelocity .. MaxVelocity
MaxVelocity == 1

\* producer invocations per fingerprint: 0 .. MaxInvocations
MaxInvocations == 2

\* key/value tokens handed to construct_encoder_config: 0 .. MaxConfigLength
MaxConfigLength == 3

\* len_lvb of generate_timeline_function: 0 .. MaxBufferLength
MaxBufferLength == 3
\* n_superframes of generate_timeline_function: 0 .. MaxPoints
MaxPoints == 5

\* source videos a slicer can come from
Sources == {1, 2}
\* superframe sizes of the slicers (6 is the default of slice() and of the CLI)
SuperframeSizes == {1, 6}

\* the value of a step that returned nothing
NoSlice == <<>>

\* slicer.slices of a slicer that cut source s into n slices
SlicesOf(s, n) == [k \in 1..n |-> <<s, k>>]

\* the slicer objects init_buffer can be handed
Slicers ==
    [src : Sources, n : 0..MaxSlices, superframe_size : SuperframeSizes]

\* the forward slicer is the one over the first source; the backward slicer
\* is over the same source or over the other
ForwardSlicers == {s \in Slicers : s.src = 1}

\* degrees of accelerate (1 is its default)
Degrees == {0 - 1, 1}

Targets == (0 - MaxOvershoot)..(MaxSlices + MaxOvershoot)

\* rationals p/q handed to the velocity setter: halves and integers
Velocities == {<<p, q>> : p \in (0 - MaxVelocity)..MaxVelocity, q \in {1, 2}}

Range(s) == {s[i] : i \in DOMAIN s}

\* slicer_backward.slices taken as it is
ReverseNot(s) == s

\* slices[::-1]
Reverse(s) == [i \in 1..Len(s) |-> s[Len(s) + 1 - i]]

\* int(x) of the quotient a / b, b > 0: truncation toward zero
TruncDiv(a, b) == IF a >= 0 THEN a \div b ELSE 0 - ((0 - a) \div b)

-----------------------------------------------------------------------------
(* VideoSliceBufferReversible *)

\* the attributes __init__ assigns; superframe_size is not among them
InitAttributes ==
    {"buffer_forward", "buffer_backward", "forward", "index",
     "_velocity_numerator", "_velocity_denominator"}

\* a rotation that pops one end and never appends to the other
DequeRotateDrop(q, k) ==
    IF Len(q) = 0 \/ k = 0 THEN q ELSE Tail(q)

\* deque.rotate(k): k steps to the right, negative k to the left;
\* a no-op on an empty deque
DequeRotate(q, k) ==
    IF Len(q) = 0 THEN q
    ELSE [i \in 1..Len(q) |-> q[((i - 1 - k) % Len(q)) + 1]]

\* the velocity setter hands back a mutated copy of the state it reads: the
\* direction is taken from the velocity and direction held before the
\* assignment, then int(velocity * denominator) is stored, velocity = v[1]/v[2]
VelocitySetterEager(fwd, vnum, vden, v) ==
    LET stored == TruncDiv(v[1] * vden, v[2])
    IN  [forward |-> IF fwd THEN stored >= 0 ELSE stored > 0,
         numerator |-> stored]

VelocitySetter(fwd, vnum, vden, v) ==
    [forward |-> IF fwd THEN vnum >= 0 ELSE vnum > 0,
     numerator |-> TruncDiv(v[1] * vden, v[2])]

\* step(to): the displacement of a target-driven step
NMoves(to, idx) == to - idx

\* the displacement itself becomes the velocity
TargetVelocityMagnitude(n_moves) == <<n_moves, 1>>

\* step(to): the velocity a target-driven step sets
TargetVelocity(n_moves) ==
    IF n_moves < 0 THEN <<0 - 1, 1>>
    ELSE IF n_moves > 0 THEN <<1, 1>>
    ELSE <<0, 1>>

\* self.index = n_moves
NewIndexAssigned(idx, n_moves) == n_moves

\* step: self.index += n_moves
NewIndex(idx, n_moves) == idx + n_moves

\* the same comparison in both directions
HeadIsForwardSymmetric(fwd, vnum) == vnum >= 0

\* the strict comparison in both directions
HeadIsForwardStrict(fwd, vnum) == vnum > 0

\* the direction flag alone, as the `state` property reads it
HeadIsForwardByDirection(fwd, vnum) == fwd

\* step: which queue's head is returned
HeadIsForward(fwd, vnum) == IF fwd THEN vnum >= 0 ELSE vnum > 0

\* an empty queue yields a placeholder instead of raising
CurrentHeadOrNone(bf, bb, fwd, vnum) ==
    LET q == IF HeadIsForward(fwd, vnum) THEN bf ELSE bb
    IN  IF Len(q) = 0 THEN <<0, 0>> ELSE q[1]

\* step: the head returned, NoSlice when deque[0] raises IndexError
CurrentHead(bf, bb, fwd, vnum) ==
    LET q == IF HeadIsForward(fwd, vnum) THEN bf ELSE bb
    IN  IF Len(q) = 0 THEN NoSlice ELSE q[1]

\* the `state` property
State == IF forward THEN
             (IF Len(buffer_forward) = 0 THEN NoSlice ELSE buffer_forward[1])
         ELSE
             (IF Len(buffer_backward) = 0 THEN NoSlice ELSE buffer_backward[1])

NoCall == [op |-> "none", hasTo |-> FALSE, to |-> 0, v |-> <<0, 1>>, degree |-> 0,
           preIndex |-> 0, preForward |-> TRUE, preNum |-> 0,
           preBF |-> <<>>, preBB |-> <<>>,
           outcome |-> "ok", ret |-> NoSlice]

\* the record of a call, taken in the state before it
Call(op) == [NoCall EXCEPT !.op = op, !.preIndex = index, !.preForward = forward,
                           !.preNum = velocity_numerator,
                           !.preBF = buffer_forward, !.preBB = buffer_backward]

\* CompressureSystem.init_buffer / VideoSliceBufferReversible.__init__
init_buffer(slicer_forward, slicer_backward) ==
    /\ ~constructed
    /\ constructed' = TRUE
    /\ ctor' = [forward |-> SlicesOf(slicer_forward.src, slicer_forward.n),
                backward |-> SlicesOf(slicer_backward.src, slicer_backward.n),
                superframe_size |-> slicer_forward.superframe_size]
    /\ buffer_forward' = SlicesOf(slicer_forward.src, slicer_forward.n)
    /\ buffer_backward' = Reverse(SlicesOf(slicer_backward.src, slicer_backward.n))
    /\ forward' = TRUE
    /\ index' = 0
    /\ velocity_numerator' = slicer_forward.superframe_size
    /\ velocity_denominator' = slicer_forward.superframe_size
    /\ last' = [NoCall EXCEPT !.op = "init"]
    /\ UNCHANGED <<cacheVars, timeline>>

\* the velocity setter, called on its own
set_velocity(v) ==
    /\ constructed
    /\ LET set == VelocitySetter(forward, velocity_numerator, velocity_denominator, v)
       IN  /\ forward' = set.forward
           /\ velocity_numerator' = set.numerator
    /\ last' = [Call("set_velocity") EXCEPT !.v = v]
    /\ UNCHANGED <<constructed, ctor, buffer_forward, buffer_backward, index,
                   velocity_denominator, cacheVars, timeline>>

\* a call that raised AttributeError on self.superframe_size: nothing assigned
RaiseAttributeError(call) ==
    /\ last' = [call EXCEPT !.outcome = "AttributeError"]
    /\ UNCHANGED <<constructed, ctor, buffer_forward, buffer_backward, forward, index,
                   velocity_numerator, velocity_denominator, cacheVars, timeline>>

\* the body of step once n_moves, the direction and the numerator are known
StepBody(call, n_moves, fwd, vnum) ==
    LET bf == DequeRotate(buffer_forward, 0 - n_moves)
        bb == DequeRotate(buffer_backward, 0 - n_moves)
        head == CurrentHead(bf, bb, fwd, vnum)
    IN  /\ buffer_forward' = bf
        /\ buffer_backward' = bb
        /\ forward' = fwd
        /\ velocity_numerator' = vnum
        /\ index' = NewIndex(index, n_moves)
        /\ last' = [call EXCEPT !.ret = head,
                                !.outcome = IF head = NoSlice THEN "IndexError" ELSE "ok"]
        /\ UNCHANGED <<constructed, ctor, velocity_denominator, cacheVars, timeline>>

\* step(to=t)
step_to(t) ==
    /\ constructed
    /\ LET n_moves == NMoves(t, index)
           v == TargetVelocity(n_moves)
           set == VelocitySetter(forward, velocity_numerator, velocity_denominator, v)
       IN  StepBody([Call("step") EXCEPT !.hasTo = TRUE, !.to = t, !.v = v],
                    n_moves, set.forward, set.numerator)

\* step(): n_moves = int(self.superframe_size * self.velocity)
step_velocity ==
    /\ constructed
    /\ IF "superframe_size" \in InitAttributes
       THEN StepBody(Call("step"),
                     TruncDiv(ctor.superframe_size * velocity_numerator,
                              velocity_denominator),
                     forward, velocity_numerator)
       ELSE RaiseAttributeError(Call("step"))

\* accelerate(degree): self.velocity = self.velocity + degree / self.superframe_size,
\* then step()
accelerate(degree) ==
    /\ constructed
    /\ LET call == [Call("accelerate") EXCEPT !.degree = degree]
       IN  IF "superframe_size" \in InitAttributes
           THEN LET S == ctor.superframe_size
                    v == <<velocity_numerator * S + degree * velocity_denominator,
                           velocity_denominator * S>>
                    set == VelocitySetter(forward, velocity_numerator,
                                          velocity_denominator, v)
                IN  StepBody([call EXCEPT !.v = v],
                             TruncDiv(S * set.numerator, velocity_denominator),
                             set.forward, set.numerator)
           ELSE RaiseAttributeError(call)

-----------------------------------------------------------------------------
(* CompressureSystem.compress and CompressureSystem.slice over the persistence *)

\* gop_size of compress (its default)
GopSizes == {6000}

\* superframe_size of slice (its default)
SliceSizes == {6}

\* the arguments of compress that tell one transcode from another
CompressConfigs == [fpath_in : Sources, gop_size : GopSizes]

\* the cache key of a transcode (superframe_size 0) or of a slice set
Fingerprint(kind, cfg, superframe_size) ==
    [kind |-> kind, fpath_in |-> cfg.fpath_in, gop_size |-> cfg.gop_size,
     superframe_size |-> superframe_size]

Fingerprints ==
    {Fingerprint("Transcode", c, 0) : c \in CompressConfigs}
    \cup {Fingerprint("SliceSet", c, S) : c \in CompressConfigs, S \in SliceSizes}

\* an output that no producer has written
Unset == <<>>

\* the path transcode_video writes for a configuration
TranscodedPath(cfg) == <<"transcoded", cfg.fpath_in, cfg.gop_size>>

\* frames of a source video, and the slices slice_video cuts it into
FrameCount(src) == 6 * src + 1
SliceCount(src, superframe_size) ==
    (FrameCount(src) + superframe_size - 1) \div superframe_size

\* a SingleVideoCompression / VideoSlicer as its constructor leaves it:
\* no output until transcode_video / slice_video has run
NewArtifact(kind, cfg, superframe_size) ==
    [kind |-> kind, cfg |-> cfg, superframe_size |-> superframe_size, out |-> Unset]

\* what a call hands back when it raised
Nothing == [kind |-> "none", cfg |-> [fpath_in |-> 0, gop_size |-> 0],
            superframe_size |-> 0, out |-> Unset]

NoRecord == [fp |-> Fingerprint("none", [fpath_in |-> 0, gop_size |-> 0], 0),
             out |-> Unset]

\* persistence.get_compression / get_slices: the record of a fingerprint, or none
Lookup(m, fp) == IF Len(m[fp]) = 0 THEN NoRecord ELSE m[fp][1]

\* persistence.add_compression / add_slices
AddRecord(m, rec) == [m EXCEPT ![rec.fp] = Append(@, rec)]

\* the compressor objects compress can have returned: those of a recorded
\* transcode, as a miss returns them (output set) and as a hit does
Compressors(m) ==
    {[NewArtifact("Transcode", c, 0) EXCEPT !.out = o] :
        c \in {x \in CompressConfigs :
                  Lookup(m, Fingerprint("Transcode", x, 0)) # NoRecord},
        o \in {Unset} \cup {TranscodedPath(x) : x \in CompressConfigs}}

\* a lookup that finds nothing, whatever the manifest holds
IsMissAlways(cached) == TRUE

\* `if cached is None` / `if slices is None`
IsMiss(cached) == cached = NoRecord

\* the record is added before the producer has run
ManifestAfterMissEarly(m, rec, outcome) == AddRecord(m, rec)

\* a miss: the producer runs, then persistence.add_* appends the record; an
\* exception of the producer leaves the handler before the append
ManifestAfterMiss(m, rec, outcome) ==
    IF outcome = "ok" THEN AddRecord(m, rec) ELSE m

\* how the producer of a miss can end
MissOutcomes == {"ok", "producer_failed"}

NoCacheCall == [op |-> "none", fp |-> NoRecord.fp, hit |-> FALSE, outcome |-> "ok",
                returned |-> Nothing,
                manifestBefore |-> [fp \in Fingerprints |-> <<>>],
                invocationsBefore |-> 0]

\* the lookup, the producer and the append of compress and of slice;
\* `produced` is what the producer writes
GetOrCreate(op, fresh, fp, produced, outcome) ==
    LET cached == Lookup(manifest, fp)
        call == [NoCacheCall EXCEPT !.op = op, !.fp = fp,
                                    !.manifestBefore = manifest,
                                    !.invocationsBefore = invocations[fp]]
    IN  IF IsMiss(cached)
        THEN /\ invocations[fp] < MaxInvocations
             /\ invocations' = [invocations EXCEPT ![fp] = @ + 1]
             /\ manifest' = ManifestAfterMiss(manifest, [fp |-> fp, out |-> produced],
                                              outcome)
             /\ LET made == [fresh EXCEPT !.out = produced]
                    ret == IF outcome = "ok" THEN made ELSE Nothing
                IN  lastCache' = [call EXCEPT !.outcome = outcome, !.returned = ret]
        ELSE /\ outcome = "ok"
             /\ lastCache' = [call EXCEPT !.hit = TRUE, !.returned = fresh]
             /\ UNCHANGED <<manifest, invocations>>

\* CompressureSystem.compress
compress(cfg, outcome) ==
    /\ GetOrCreate("compress", NewArtifact("Transcode", cfg, 0),
                   Fingerprint("Transcode", cfg, 0), TranscodedPath(cfg), outcome)
    /\ UNCHANGED <<seqVars, timeline>>

\* CompressureSystem.slice
slice(compressor, superframe_size, outcome) ==
    /\ GetOrCreate("slice", NewArtifact("SliceSet", compressor.cfg, superframe_size),
                   Fingerprint("SliceSet", compressor.cfg, superframe_size),
                   SlicesOf(compressor.cfg.fpath_in,
                            SliceCount(compressor.cfg.fpath_in, superframe_size)),
                   outcome)
    /\ UNCHANGED <<seqVars, timeline>>

CacheInit ==
    /\ manifest = [fp \in Fingerprints |-> <<>>]
    /\ invocations = [fp \in Fingerprints |-> 0]
    /\ lastCache = NoCacheCall

CacheNext ==
    \/ \E cfg \in CompressConfigs, o \in MissOutcomes :
           compress(cfg, o) /\ UNCHANGED <<configVars, runVars>>
    \/ \E c \in Compressors(manifest), S \in SliceSizes, o \in MissOutcomes :
           slice(c, S, o) /\ UNCHANGED <<configVars, runVars>>

-----------------------------------------------------------------------------
(* generate_timeline_function *)

\* sines are kept as integers: sin(x) * SinScale, truncated toward zero
SinScale == 1000000

\* the double-precision sines of the multiples of pi/12, one period
SinTable ==
    <<0, 258819, 499999, 707106, 866025, 965925, 1000000,
      965925, 866025, 707106, 500000, 258819,
      0, -258819, -499999, -707106, -866025, -965925, -1000000,
      -965925, -866025, -707106, -500000, -258819>>

\* np.sin of k * pi/12
Sin(k) == SinTable[(k % 24) + 1]

\* frequency as a rational f[1] / f[2] (0.5 is the CLI's default, 1 the function's)
Frequencies == {<<1, 2>>, <<1, 1>>, <<2, 1>>, <<0 - 1, 2>>}

Categories == {"sinusoid", "compound-sinusoid", "sawtooth"}

\* np.linspace(0, 2 * pi * frequency, n)[i], i = 1..n, in units of pi/12
Linspace(f, n, i) ==
    IF n = 1 THEN 0 ELSE (24 * f[1] * (i - 1)) \div (f[2] * (n - 1))

\* the samples of np.linspace(0, 2 * pi * frequency, n) all fall on the table
OnTable(f, n) ==
    \A i \in 1..n : n > 1 => (24 * f[1] * (i - 1)) % (f[2] * (n - 1)) = 0

\* both waveforms scaled by the whole buffer length
TimelineScaleFull(category, len_lvb) == len_lvb

\* the factor the sines are multiplied by
TimelineScale(category, len_lvb) ==
    IF category = "sinusoid" THEN len_lvb - 1 ELSE len_lvb

\* locations[locations < 0] = -locations[locations < 0]
Mirror(x) == IF x < 0 THEN 0 - x ELSE x

\* the location of one sample: scaled, mirrored, .astype(int)
Location(category, len_lvb, k) ==
    TruncDiv(Mirror(Sin(k) * TimelineScale(category, len_lvb)), SinScale)

NoTimeline == [category |-> "none", len_lvb |-> 0, frequency |-> <<1, 1>>,
               n_superframes |-> 0, outcome |-> "none", locations |-> <<>>]

\* generate_timeline_function(superframe_size, len_lvb, n_superframes, category, frequency)
generate_timeline_function(len_lvb, n_superframes, category, frequency) ==
    /\ OnTable(frequency, n_superframes)
    /\ timeline' =
         [category |-> category, len_lvb |-> len_lvb, frequency |-> frequency,
          n_superframes |-> n_superframes,
          outcome |-> IF category \in {"sinusoid", "compound-sinusoid"}
                      THEN "ok" ELSE "NotImplementedError",
          locations |-> IF category \in {"sinusoid", "compound-sinusoid"}
                        THEN [i \in 1..n_superframes |->
                                 Location(category, len_lvb,
                                          Linspace(frequency, n_superframes, i))]
                        ELSE <<>>]
    /\ UNCHANGED <<seqVars, cacheVars>>

TimelineInit == timeline = NoTimeline

TimelineNext ==
    \E len_lvb \in 0..MaxBufferLength, n \in 0..MaxPoints, c \in Categories,
       f \in Frequencies :
        generate_timeline_function(len_lvb, n, c, f) /\ UNCHANGED <<configVars, runVars>>

-----------------------------------------------------------------------------
(* construct_encoder_config *)

\* the option names any encoder knows
OptionKeys == {"preset", "qscale"}

\* dict.get of a key the dict does not hold
None == "None"

\* the encoders VideoCompressionDefaults.encoder_config_options has an entry for
Encoders == {"h264", "mpeg4"}

\* VideoCompressionDefaults.encoder_config_options as the module defines it;
\* an option an encoder does not have is marked None
DefaultEncoderConfigOptions ==
    [e \in Encoders |->
        [k \in OptionKeys |->
            IF e = "h264" /\ k = "preset" THEN "medium"
            ELSE IF e = "mpeg4" /\ k = "qscale" THEN "5"
            ELSE None]]

\* --encoder values: the known encoders and one that has no entry
EncoderArguments == Encoders \cup {"vp9"}

\* the strings of --encoder_config
Tokens == {"preset", "unknown_opt", "slow"}

\* --encoder_config: a flat list key value key value ..
UserConfigs == UNION {[1..n -> Tokens] : n \in 0..MaxConfigLength}

\* encoder_config.get(key)
DictGet(d, key) == IF key \in DOMAIN d THEN d[key] ELSE None

\* every key passes
IsRecognizedAlways(encoder_config, key) == TRUE

\* the negation of `encoder_config.get(key) is None`
IsRecognized(encoder_config, key) == DictGet(encoder_config, key) # None

RECURSIVE ConfigLoop(_, _, _)
\* the for loop from position i of range(0, len(user_specified_config), 2):
\* how it ends and what encoder_config holds by then
ConfigLoop(encoder_config, user_specified_config, i) ==
    IF i >= Len(user_specified_config)
    THEN [outcome |-> "ok", encoder_config |-> encoder_config]
    ELSE IF i + 1 >= Len(user_specified_config)
    THEN [outcome |-> "MalformedConfigurationError",
          encoder_config |-> encoder_config]
    ELSE LET key == user_specified_config[i + 1]
             value == user_specified_config[i + 2]
         IN  IF ~IsRecognized(encoder_config, key)
             THEN [outcome |-> "UnrecognizedEncoderConfigError",
                   encoder_config |-> encoder_config]
             ELSE ConfigLoop([encoder_config EXCEPT ![key] = value],
                             user_specified_config, i + 2)

\* encoder_config is the table's own dict for the encoder, not a copy of it:
\* what the loop stored is in the table
TableAfter(table, encoder, encoder_config) ==
    [table EXCEPT ![encoder] = encoder_config]

\* the mapping of a call that raised
NoConfig == [k \in OptionKeys |-> None]

NoConfigCall == [op |-> "none", encoder |-> "none", user_specified_config |-> <<>>,
                 outcome |-> "ok", returned |-> NoConfig,
                 tableBefore |-> DefaultEncoderConfigOptions]

\* construct_encoder_config(encoder, user_specified_config)
construct_encoder_config(encoder, user_specified_config) ==
    /\ LET call == [NoConfigCall EXCEPT
                       !.op = "construct_encoder_config", !.encoder = encoder,
                       !.user_specified_config = user_specified_config,
                       !.tableBefore = encoder_config_options]
       IN  IF encoder \notin DOMAIN encoder_config_options
           THEN /\ lastConfig' = [call EXCEPT !.outcome = "EncoderSelectionError"]
                /\ UNCHANGED encoder_config_options
           ELSE LET loop == ConfigLoop(encoder_config_options[encoder],
                                       user_specified_config, 0)
                IN  /\ encoder_config_options' =
                           TableAfter(encoder_config_options, encoder,
                                      loop.encoder_config)
                    /\ lastConfig' =
                           [call EXCEPT !.outcome = loop.outcome,
                                        !.returned = IF loop.outcome = "ok"
                                                     THEN loop.encoder_config
                                                     ELSE NoConfig]
    /\ UNCHANGED <<seqVars, cacheVars, timeline>>

ConfigInit ==
    /\ encoder_config_options = DefaultEncoderConfigOptions
    /\ lastConfig = NoConfigCall

ConfigNext ==
    \E e \in EncoderArguments, c \in UserConfigs :
        construct_encoder_config(e, c) /\ UNCHANGED runVars

-----------------------------------------------------------------------------
(* main *)

\* --frequency values of a run (0.5 is the default)
MainFrequencies == {<<1, 2>>, <<1, 1>>}

\* the command lines parse_args can return; n_superframes >= 1, and the
\* timeline's samples fall on the sine table
MainArguments ==
    {a \in [encoder : EncoderArguments, encoder_config : UserConfigs,
            pre_reverse_loop : BOOLEAN,
            fpath_in_forward : Sources, fpath_in_backward : Sources,
            gop_size : GopSizes, superframe_size : SliceSizes,
            frequency : MainFrequencies, n_superframes : 1..(MaxPoints + 1)] :
        OnTable(a.frequency, a.n_superframes - 1)}

NoArguments == [encoder |-> "none", encoder_config |-> <<>>,
                pre_reverse_loop |-> FALSE,
                fpath_in_forward |-> 0, fpath_in_backward |-> 0,
                gop_size |-> 0, superframe_size |-> 0,
                frequency |-> <<1, 1>>, n_superframes |-> 0]

\* main's local variables before any is assigned
NoLocals == [encoder_config |-> NoConfig,
             compression_forward |-> Nothing, compression_backward |-> Nothing,
             slicer_forward |-> Nothing, slicer_backward |-> Nothing,
             video_list |-> <<>>]

\* every compressor is configured with the first source
CompressorConfigOnePath(fpath_in, gop_size) ==
    [fpath_in |-> 1, gop_size |-> gop_size]

\* SingleVideoCompression(fpath_in=fpath_in, gop_size=gop_size, ...)
CompressorConfig(fpath_in, gop_size) ==
    [fpath_in |-> fpath_in, gop_size |-> gop_size]

\* what the sequencer's constructor reads of a VideoSlicer: slices, superframe_size
AsSlicer(slicer) ==
    [src |-> slicer.cfg.fpath_in, n |-> Len(slicer.out),
     superframe_size |-> slicer.superframe_size]

\* one target per frame of the list
TimelinePointsAll(n_superframes) == n_superframes

\* n_superframes=args.n_superframes - 1
TimelinePoints(n_superframes) == n_superframes - 1

\* main goes on at statement `to`, or ends with exception `exc`
Goto(to) == pc' = to /\ raised' = "none"
Raise(exc) == pc' = "raised" /\ raised' = exc

\* args = parse_args(); controller = CompressureSystem()
main_parse_args(a) ==
    /\ pc = "parse_args"
    /\ args' = a
    /\ Goto("construct_encoder_config")
    /\ UNCHANGED <<locals, concatenated>>
    /\ UNCHANGED <<seqVars, cacheVars, timeline, configVars>>

\* encoder_config = construct_encoder_config(args.encoder, args.encoder_config),
\* then the pre_reverse_loop test
main_construct_encoder_config ==
    /\ pc = "construct_encoder_config"
    /\ construct_encoder_config(args.encoder, args.encoder_config)
    /\ IF lastConfig'.outcome # "ok"
       THEN Raise(lastConfig'.outcome) /\ UNCHANGED locals
       ELSE /\ locals' = [locals EXCEPT !.encoder_config = lastConfig'.returned]
            /\ IF args.pre_reverse_loop
               THEN Raise("NotImplementedError")
               ELSE Goto("compress_forward")
    /\ UNCHANGED <<args, concatenated>>

\* a cached operation of main: local variable `name` takes what it returns
MainCached(name, to) ==
    /\ IF lastCache'.outcome = "ok"
       THEN locals' = [locals EXCEPT ![name] = lastCache'.returned] /\ Goto(to)
       ELSE Raise("ExternalToolError") /\ UNCHANGED locals
    /\ UNCHANGED <<args, concatenated, configVars>>

\* compression_forward = controller.compress(fpath_in_forward, ...)
main_compress_forward ==
    /\ pc = "compress_forward"
    /\ \E o \in MissOutcomes :
           compress(CompressorConfig(args.fpath_in_forward, args.gop_size), o)
    /\ MainCached("compression_forward", "compress_backward")

\* compression_backward = controller.compress(fpath_in_backward, ...)
main_compress_backward ==
    /\ pc = "compress_backward"
    /\ \E o \in MissOutcomes :
           compress(CompressorConfig(args.fpath_in_backward, args.gop_size), o)
    /\ MainCached("compression_backward", "slice_forward")

\* slicer_forward = controller.slice(compression_forward, args.superframe_size)
main_slice_forward ==
    /\ pc = "slice_forward"
    /\ \E o \in MissOutcomes :
           slice(locals.compression_forward, args.superframe_size, o)
    /\ MainCached("slicer_forward", "slice_backward")

\* slicer_backward = controller.slice(compression_backward, args.superframe_size)
main_slice_backward ==
    /\ pc = "slice_backward"
    /\ \E o \in MissOutcomes :
           slice(locals.compression_backward, args.superframe_size, o)
    /\ MainCached("slicer_backward", "init_buffer")

\* buffer = controller.init_buffer(slicer_forward, slicer_backward)
main_init_buffer ==
    /\ pc = "init_buffer"
    /\ init_buffer(AsSlicer(locals.slicer_forward), AsSlicer(locals.slicer_backward))
    /\ Goto("video_list")
    /\ UNCHANGED <<args, locals, concatenated, configVars>>

\* video_list = [buffer.state]
main_video_list ==
    /\ pc = "video_list"
    /\ IF State = NoSlice
       THEN Raise("IndexError") /\ UNCHANGED locals
       ELSE locals' = [locals EXCEPT !.video_list = <<State>>] /\ Goto("timeline")
    /\ UNCHANGED <<args, concatenated>>
    /\ UNCHANGED <<seqVars, cacheVars, timeline, configVars>>

\* timeline = generate_timeline_function(args.superframe_size, len(buffer),
\*     frequency=args.frequency, n_superframes=args.n_superframes - 1)
main_timeline ==
    /\ pc = "timeline"
    /\ generate_timeline_function(Len(buffer_forward),
                                  TimelinePoints(args.n_superframes),
                                  "sinusoid", args.frequency)
    /\ Goto("step")
    /\ UNCHANGED <<args, locals, concatenated, configVars>>

\* one turn of `for loc in timeline: video_list.append(buffer.step(to=loc))`
main_step ==
    /\ pc = "step"
    /\ Len(locals.video_list) <= Len(timeline.locations)
    /\ step_to(timeline.locations[Len(locals.video_list)])
    /\ IF last'.outcome = "ok"
       THEN /\ locals' = [locals EXCEPT !.video_list = Append(@, last'.ret)]
            /\ Goto("step")
       ELSE Raise(last'.outcome) /\ UNCHANGED locals
    /\ UNCHANGED <<args, concatenated, configVars>>

\* concat_videos(video_list, fpath_out=args.fpath_out), the loop being over
main_concat_videos ==
    /\ pc = "step"
    /\ Len(locals.video_list) > Len(timeline.locations)
    /\ concatenated' = Append(concatenated, locals.video_list)
    /\ Goto("done")
    /\ UNCHANGED <<args, locals>>
    /\ UNCHANGED <<seqVars, cacheVars, timeline, configVars>>

MainInit ==
    /\ pc = "parse_args"
    /\ args = NoArguments
    /\ locals = NoLocals
    /\ concatenated = <<>>
    /\ raised = "none"

MainNext ==
    \/ pc = "parse_args" /\ \E a \in MainArguments :
           main_parse_args(a) /\ UNCHANGED pipeVars
    \/ main_construct_encoder_config /\ UNCHANGED pipeVars
    \/ main_compress_forward /\ UNCHANGED pipeVars
    \/ main_compress_backward /\ UNCHANGED pipeVars
    \/ main_slice_forward /\ UNCHANGED pipeVars
    \/ main_slice_backward /\ UNCHANGED pipeVars
    \/ main_init_buffer /\ UNCHANGED pipeVars
    \/ main_video_list /\ UNCHANGED pipeVars
    \/ main_timeline /\ UNCHANGED pipeVars
    \/ main_step /\ UNCHANGED pipeVars
    \/ main_concat_videos /\ UNCHANGED pipeVars

-----------------------------------------------------------------------------
(* The forward and the backward pipeline of main, compress then slice, run  *)
(* as two processes over one persistence; a step is one call on it or one   *)
(* producer run.                                                            *)

Pipelines == {"forward", "backward"}

\* what the producer of a fingerprint writes
ProducedOutput(fp) ==
    IF fp.kind = "Transcode"
    THEN TranscodedPath(CompressorConfig(fp.fpath_in, fp.gop_size))
    ELSE SlicesOf(fp.fpath_in, SliceCount(fp.fpath_in, fp.superframe_size))

\* the manifests earlier runs can have left: per fingerprint one record or
\* none, slices only of a recorded transcode
LoadedManifests ==
    {[fp \in Fingerprints |->
         IF fp \in R THEN <<[fp |-> fp, out |-> ProducedOutput(fp)]>> ELSE <<>>] :
     R \in {Q \in SUBSET Fingerprints :
               \A fp \in Q : fp.kind = "SliceSet" =>
                   [fp EXCEPT !.kind = "Transcode", !.superframe_size = 0] \in Q}}

NoPipeline == [pc |-> "idle", fpath_in |-> 0, gop_size |-> 0, superframe_size |-> 0,
               compressor |-> Nothing, slicer |-> Nothing]

\* the fingerprints of a pipeline's transcode and of its slice set
TranscodeOf(q) ==
    Fingerprint("Transcode", CompressorConfig(q.fpath_in, q.gop_size), 0)
SlicesKeyOf(q) ==
    Fingerprint("SliceSet", q.compressor.cfg, q.superframe_size)

\* both pipelines are handed their source; the persistence holds manifest m
pipe_start(f, b, g, S, m) ==
    /\ \A p \in Pipelines : pipe[p].pc = "idle"
    /\ pipe' = [p \in Pipelines |->
                  [NoPipeline EXCEPT !.pc = "compress",
                                     !.fpath_in = IF p = "forward" THEN f ELSE b,
                                     !.gop_size = g, !.superframe_size = S]]
    /\ loaded' = m
    /\ manifest' = m
    /\ UNCHANGED <<invocations, lastCache, seqVars, timeline, configVars, mainVars>>

\* compress up to `if cached is None`
pipe_get_compression(p) ==
    /\ pipe[p].pc = "compress"
    /\ LET q == pipe[p]
           compressor == NewArtifact("Transcode",
                                     CompressorConfig(q.fpath_in, q.gop_size), 0)
           cached == Lookup(manifest, TranscodeOf(q))
       IN  pipe' = [pipe EXCEPT ![p] =
                       [q EXCEPT !.compressor = compressor,
                                 !.pc = IF IsMiss(cached) THEN "transcode_video"
                                        ELSE "slice"]]
    /\ UNCHANGED <<loaded, cacheVars, seqVars, timeline, configVars, mainVars>>

\* compressor.transcode_video()
pipe_transcode_video(p, outcome) ==
    /\ pipe[p].pc = "transcode_video"
    /\ LET q == pipe[p]
       IN  /\ invocations' = [invocations EXCEPT ![TranscodeOf(q)] = @ + 1]
           /\ pipe' = [pipe EXCEPT ![p] =
                          IF outcome = "ok"
                          THEN [q EXCEPT !.compressor.out = TranscodedPath(q.compressor.cfg),
                                         !.pc = "add_compression"]
                          ELSE [q EXCEPT !.pc = "raised"]]
    /\ UNCHANGED <<loaded, manifest, lastCache, seqVars, timeline, configVars, mainVars>>

\* self.persistence.add_compression(compressor); return compressor
pipe_add_compression(p) ==
    /\ pipe[p].pc = "add_compression"
    /\ manifest' = AddRecord(manifest, [fp |-> TranscodeOf(pipe[p]),
                                        out |-> pipe[p].compressor.out])
    /\ pipe' = [pipe EXCEPT ![p].pc = "slice"]
    /\ UNCHANGED <<loaded, invocations, lastCache, seqVars, timeline, configVars,
                   mainVars>>

\* slice up to `if slices is None`
pipe_get_slices(p) ==
    /\ pipe[p].pc = "slice"
    /\ LET q == pipe[p]
           slicer == NewArtifact("SliceSet", q.compressor.cfg, q.superframe_size)
           slices == Lookup(manifest, SlicesKeyOf(q))
       IN  pipe' = [pipe EXCEPT ![p] =
                       [q EXCEPT !.slicer = slicer,
                                 !.pc = IF IsMiss(slices) THEN "slice_video"
                                        ELSE "done"]]
    /\ UNCHANGED <<loaded, cacheVars, seqVars, timeline, configVars, mainVars>>

\* slicer.slice_video()
pipe_slice_video(p, outcome) ==
    /\ pipe[p].pc = "slice_video"
    /\ LET q == pipe[p]
       IN  /\ invocations' = [invocations EXCEPT ![SlicesKeyOf(q)] = @ + 1]
           /\ pipe' = [pipe EXCEPT ![p] =
                          IF outcome = "ok"
                          THEN [q EXCEPT !.slicer.out = ProducedOutput(SlicesKeyOf(q)),
                                         !.pc = "add_slices"]
                          ELSE [q EXCEPT !.pc = "raised"]]
    /\ UNCHANGED <<loaded, manifest, lastCache, seqVars, timeline, configVars, mainVars>>

\* self.persistence.add_slices(compressor, slicer); return slicer
pipe_add_slices(p) ==
    /\ pipe[p].pc = "add_slices"
    /\ manifest' = AddRecord(manifest, [fp |-> SlicesKeyOf(pipe[p]),
                                        out |-> pipe[p].slicer.out])
    /\ pipe' = [pipe EXCEPT ![p].pc = "done"]
    /\ UNCHANGED <<loaded, invocations, lastCache, seqVars, timeline, configVars,
                   mainVars>>

PipeInit ==
    /\ pipe = [p \in Pipelines |-> NoPipeline]
    /\ loaded = [fp \in Fingerprints |-> <<>>]

PipeNext ==
    \/ \E f \in Sources, b \in Sources, g \in GopSizes, S \in SliceSizes,
          m \in LoadedManifests : pipe_start(f, b, g, S, m)
    \/ \E p \in Pipelines : pipe_get_compression(p)
    \/ \E p \in Pipelines, o \in MissOutcomes : pipe_transcode_video(p, o)
    \/ \E p \in Pipelines : pipe_add_compression(p)
    \/ \E p \in Pipelines : pipe_get_slices(p)
    \/ \E p \in Pipelines, o \in MissOutcomes : pipe_slice_video(p, o)
    \/ \E p \in Pipelines : pipe_add_slices(p)

\* one cached operation run from lookup to return, its producer succeeding
CachedOperation(st, fresh, fp) ==
    IF IsMiss(Lookup(st.manifest, fp))
    THEN [manifest |-> ManifestAfterMiss(st.manifest,
                                         [fp |-> fp, out |-> ProducedOutput(fp)], "ok"),
          invocations |-> [st.invocations EXCEPT ![fp] = @ + 1],
          returned |-> [fresh EXCEPT !.out = ProducedOutput(fp)]]
    ELSE [st EXCEPT !.returned = fresh]

\* what main's four calls, one after the other, leave behind when they start
\* from manifest m: compress forward, compress backward, slice forward,
\* slice backward
SequentialRun(f, b, g, S, m) ==
    LET compressed(st, src) ==
            CachedOperation(st, NewArtifact("Transcode", CompressorConfig(src, g), 0),
                            Fingerprint("Transcode", CompressorConfig(src, g), 0))
        sliced(st, compressor) ==
            CachedOperation(st, NewArtifact("SliceSet", compressor.cfg, S),
                            Fingerprint("SliceSet", compressor.cfg, S))
        s0 == [manifest |-> m, invocations |-> [fp \in Fingerprints |-> 0],
               returned |-> Nothing]
        s1 == compressed(s0, f)
        s2 == compressed(s1, b)
        s3 == sliced(s2, s1.returned)
        s4 == sliced(s3, s2.returned)
    IN  [manifest |-> s4.manifest, invocations |-> s4.invocations,
         slices_forward |-> s3.returned.out, slices_backward |-> s4.returned.out]

SeqInit ==
    /\ constructed = FALSE
    /\ ctor = [forward |-> <<>>, backward |-> <<>>, superframe_size |-> 1]
    /\ buffer_forward = <<>>
    /\ buffer_backward = <<>>
    /\ forward = TRUE
    /\ index = 0
    /\ velocity_numerator = 1
    /\ velocity_denominator = 1
    /\ last = NoCall

SeqNext ==
    \/ \E sf \in ForwardSlicers, sb \in Slicers :
           init_buffer(sf, sb) /\ UNCHANGED <<configVars, runVars>>
    \/ \E t \in Targets : step_to(t) /\ UNCHANGED <<configVars, runVars>>
    \/ step_velocity /\ UNCHANGED <<configVars, runVars>>
    \/ \E d \in Degrees : accelerate(d) /\ UNCHANGED <<configVars, runVars>>
    \/ \E v \in Velocities : set_velocity(v) /\ UNCHANGED <<configVars, runVars>>

Init ==
    SeqInit /\ CacheInit /\ TimelineInit /\ ConfigInit /\ MainInit /\ PipeInit

Next ==
    SeqNext \/ CacheNext \/ TimelineNext \/ ConfigNext \/ MainNext \/ PipeNext

Spec == Init /\ [][Next]_vars

\* the sequencer alone
SeqSpec == Init /\ [][SeqNext]_vars

\* compress and slice alone
CacheSpec == Init /\ [][CacheNext]_vars

\* generate_timeline_function alone
TimelineSpec == Init /\ [][TimelineNext]_vars

\* construct_encoder_config alone, called any number of times
ConfigSpec == Init /\ [][ConfigNext]_vars

\* one run of main
MainSpec == Init /\ [][MainNext]_vars

\* the two pipelines side by side
PipeSpec == Init /\ [][PipeNext]_vars

-----------------------------------------------------------------------------
(* Properties of the sequencer *)

HeadOf(q) == IF Len(q) = 0 THEN NoSlice ELSE q[1]

\* the last call was a target-driven step
SteppedTo == last.op = "step" /\ last.hasTo

\* the last call ran the velocity setter
SetterCalled == last.op = "set_velocity" \/ SteppedTo

\* C1: after step(to=j) the cursor is j itself, whatever j and the cursor
\* before were, and whether or not a head could be returned
C1_StepToExact == SteppedTo => index = last.to

\* from a negative cursor to a target beyond the ring's length
C1_Witness ==
    /\ SteppedTo
    /\ Len(buffer_forward) > 0
    /\ last.preIndex < 0
    /\ last.to > Len(buffer_forward)
    /\ index = last.to

\* C2 as stated, for sequencers built from slice sets of equal length: both
\* queues have one length and hold the same set of slice identifiers
C2_SameSetOriginal ==
    (constructed /\ Len(ctor.forward) = Len(ctor.backward)) =>
        /\ Len(buffer_forward) = Len(buffer_backward)
        /\ Range(buffer_forward) = Range(buffer_backward)

\* C2 (amended): each queue keeps the length and the set of slice identifiers
\* of the slice set it was built from; the queues are as long as each other
\* exactly when the two slice sets were
C2_RingInvariant ==
    constructed =>
        /\ Len(buffer_forward) = Len(ctor.forward)
        /\ Len(buffer_backward) = Len(ctor.backward)
        /\ Range(buffer_forward) = Range(ctor.forward)
        /\ Range(buffer_backward) = Range(ctor.backward)
        /\ Cardinality(Range(buffer_forward)) = Len(ctor.forward)
        /\ Cardinality(Range(buffer_backward)) = Len(ctor.backward)

\* a step really rotated two queues that hold different slices
C2_Witness ==
    /\ SteppedTo
    /\ last.outcome = "ok"
    /\ Len(buffer_forward) = 2
    /\ Len(buffer_backward) = 2
    /\ buffer_forward # last.preBF
    /\ buffer_backward # last.preBB
    /\ Range(buffer_forward) # Range(buffer_backward)

\* C6: the head a step returns is the forward queue's if (Forward and
\* velocity >= 0) or (Backward and velocity > 0), on the direction and
\* velocity the step leaves behind, and the backward queue's otherwise
C6_HeadSelection ==
    (last.op = "step" /\ last.outcome # "AttributeError") =>
        LET fromForward == \/ (forward /\ velocity_numerator >= 0)
                           \/ (~forward /\ velocity_numerator > 0)
            q == IF fromForward THEN buffer_forward ELSE buffer_backward
        IN  /\ last.ret = HeadOf(q)
            /\ (last.outcome = "IndexError") = (Len(q) = 0)

\* the tie: velocity 0 while Backward returns the backward queue's head
C6_Witness ==
    /\ last.op = "step"
    /\ last.outcome = "ok"
    /\ ~forward
    /\ velocity_numerator = 0
    /\ Len(buffer_forward) > 0
    /\ last.ret = buffer_backward[1]
    /\ last.ret # buffer_forward[1]

\* C7: every call of the velocity setter takes the new direction from the
\* velocity and direction held before it and then stores the value; only the
\* setter changes the direction; and a call made while direction and stored
\* velocity agree leaves the direction alone whatever value it sets
C7_DirectionHysteresis ==
    [][/\ SetterCalled' =>
            /\ forward' = (IF forward THEN velocity_numerator >= 0
                                      ELSE velocity_numerator > 0)
            /\ velocity_numerator' =
                   TruncDiv(last'.v[1] * velocity_denominator, last'.v[2])
       /\ (forward' # forward) => SetterCalled'
       /\ ((forward /\ velocity_numerator >= 0) \/ (~forward /\ velocity_numerator <= 0))
              => forward' = forward
      ]_vars

\* the direction turned Backward in a call that set a positive velocity
C7_Witness ==
    /\ last.op = "set_velocity"
    /\ last.preForward
    /\ last.preNum < 0
    /\ ~forward
    /\ velocity_numerator > 0

\* C8 as stated: accelerate(degree) sets the velocity to v + degree/S, rotates
\* both queues by n = floor(S * (v + degree/S)), advances the cursor by n and
\* returns the new head; a fresh sequencer with S = 6 ends at cursor 7
C8_AccelerateAdvances ==
    (last.op = "accelerate") =>
        LET S == ctor.superframe_size
            n == (S * last.preNum + last.degree * velocity_denominator)
                     \div velocity_denominator
        IN  /\ velocity_numerator * S =
                   last.preNum * S + last.degree * velocity_denominator
            /\ index = last.preIndex + n
            /\ buffer_forward = DequeRotate(last.preBF, 0 - n)
            /\ buffer_backward = DequeRotate(last.preBB, 0 - n)
            /\ (S = 6 /\ last.preNum = 6 /\ last.preIndex = 0 /\ last.degree = 1)
                   => index = 7

\* C9 as stated: no sequencer exists that was built from slice sets of
\* different lengths, and no sequencer has queues of different lengths
C9_LengthMismatchRejected ==
    constructed =>
        /\ Len(ctor.forward) = Len(ctor.backward)
        /\ Len(buffer_forward) = Len(buffer_backward)

-----------------------------------------------------------------------------
(* Properties of compress and slice *)

HasRecord(m, fp) == Len(m[fp]) > 0

\* C3 as stated: no fingerprint's producer is invoked twice
C3_AtMostOnceOriginal == \A fp \in Fingerprints : invocations[fp] <= 1

\* C3 (amended): a producer is invoked only while the manifest holds no
\* record of the fingerprint; once it holds one, every call with that
\* configuration is a hit that invokes no producer and appends nothing, so no
\* fingerprint is ever recorded twice
C3_AtMostOnceRecorded ==
    [][/\ \A fp \in Fingerprints :
            /\ invocations'[fp] # invocations[fp] =>
                   /\ ~HasRecord(manifest, fp)
                   /\ invocations'[fp] = invocations[fp] + 1
                   /\ ~lastCache'.hit
            /\ HasRecord(manifest, fp) =>
                   /\ manifest'[fp] = manifest[fp]
                   /\ (lastCache'.fp = fp => lastCache'.hit)
            /\ Len(manifest'[fp]) <= 1
       /\ lastCache'.hit => (manifest' = manifest /\ invocations' = invocations)
      ]_vars

\* a hit that follows a failed and then a successful miss of one fingerprint
C3_Witness ==
    /\ lastCache.hit
    /\ lastCache.op = "compress"
    /\ invocations[lastCache.fp] = 2
    /\ Len(manifest[lastCache.fp]) = 1

\* C4 as stated: what compress or slice hands back on a hit carries the
\* output path or slice list of the manifest's record of that fingerprint
C4_HitReturnsRecord ==
    lastCache.hit => lastCache.returned.out = Lookup(manifest, lastCache.fp).out

\* C5: a producer that fails on a miss takes the call down with it and leaves
\* the manifest as it was, without a record of the fingerprint, so that the
\* next call with the configuration misses again
C5_ProducerFailure ==
    (lastCache.outcome = "producer_failed") =>
        /\ ~lastCache.hit
        /\ lastCache.returned = Nothing
        /\ manifest = lastCache.manifestBefore
        /\ IsMiss(Lookup(manifest, lastCache.fp))
        /\ invocations[lastCache.fp] = lastCache.invocationsBefore + 1

\* slice_video failed a second time while other records were in the manifest
C5_Witness ==
    /\ lastCache.outcome = "producer_failed"
    /\ lastCache.op = "slice"
    /\ invocations[lastCache.fp] = 2
    /\ \E fp \in Fingerprints : HasRecord(manifest, fp)
    /\ ~HasRecord(manifest, lastCache.fp)

-----------------------------------------------------------------------------
(* Properties of generate_timeline_function *)

Generated == timeline.outcome = "ok"

\* C10 as stated: every target lies in [0, len_lvb - 1] for "sinusoid" and
\* in [0, len_lvb] for "compound-sinusoid", whatever the buffer length
C10_TimelineBoundsOriginal ==
    Generated =>
        \A i \in DOMAIN timeline.locations :
            /\ 0 <= timeline.locations[i]
            /\ timeline.category = "sinusoid" =>
                   timeline.locations[i] <= timeline.len_lvb - 1
            /\ timeline.category = "compound-sinusoid" =>
                   timeline.locations[i] <= timeline.len_lvb

\* C10 (amended): the targets lie in [0, len_lvb - 1] for "sinusoid" when
\* len_lvb >= 1 and in [0, 1] when len_lvb = 0, and in [0, len_lvb] for
\* "compound-sinusoid"; there are n_superframes of them
C10_TimelineBounds ==
    Generated =>
        /\ Len(timeline.locations) = timeline.n_superframes
        /\ \A i \in DOMAIN timeline.locations :
            /\ 0 <= timeline.locations[i]
            /\ (timeline.category = "sinusoid" /\ timeline.len_lvb >= 1) =>
                   timeline.locations[i] <= timeline.len_lvb - 1
            /\ (timeline.category = "sinusoid" /\ timeline.len_lvb = 0) =>
                   timeline.locations[i] <= 1
            /\ timeline.category = "compound-sinusoid" =>
                   timeline.locations[i] <= timeline.len_lvb

\* a sinusoid over a buffer of three or more slices that touches its upper
\* bound at a mirrored (negative) sample and a lower value elsewhere
C10_Witness ==
    /\ Generated
    /\ timeline.category = "sinusoid"
    /\ timeline.len_lvb >= 3
    /\ \E i \in DOMAIN timeline.locations :
          /\ timeline.locations[i] = timeline.len_lvb - 1
          /\ Sin(Linspace(timeline.frequency, timeline.n_superframes, i)) < 0
    /\ \E i \in DOMAIN timeline.locations :
          /\ timeline.locations[i] > 0
          /\ timeline.locations[i] < timeline.len_lvb - 1

-----------------------------------------------------------------------------
(* Further properties of the sequencer *)

\* the displacement of the last target-driven step
Delta == last.to - last.preIndex

\* q turned by n places toward the tail: position i holds what was n further on
TurnedBy(q, old, n) ==
    /\ Len(q) = Len(old)
    /\ \A i \in 1..Len(q) : q[i] = old[((i - 1 + n) % Len(q)) + 1]

\* C12: a sequencer built from two empty slice sets cannot be stepped: step,
\* with or without a target, ends in an error and returns no head
C12_EmptyStepFails ==
    (last.op = "step" /\ Len(ctor.forward) = 0 /\ Len(ctor.backward) = 0) =>
        /\ last.outcome \in {"IndexError", "AttributeError"}
        /\ last.ret = NoSlice

\* a target-driven step of an empty sequencer raised IndexError
C12_Witness ==
    /\ SteppedTo
    /\ Len(ctor.forward) = 0
    /\ Len(ctor.backward) = 0
    /\ last.outcome = "IndexError"
    /\ index = last.to

\* C13: step(to=j) from cursor i stores the velocity -1, 0 or +1 by the sign
\* of delta = j - i and turns both queues by exactly delta places; so after
\* construction and after every target-driven step the velocity is -1, 0 or 1
C13_TargetStepSignOnly ==
    /\ SteppedTo =>
          /\ (Delta < 0) => velocity_numerator = 0 - velocity_denominator
          /\ (Delta > 0) => velocity_numerator = velocity_denominator
          /\ (Delta = 0) => velocity_numerator = 0
          /\ TurnedBy(buffer_forward, last.preBF, Delta)
          /\ TurnedBy(buffer_backward, last.preBB, Delta)
    /\ (SteppedTo \/ last.op = "init") =>
          velocity_numerator \in
              {0 - velocity_denominator, 0, velocity_denominator}

\* a move of two places at superframe size 6 left the velocity at +1
C13_Witness ==
    /\ SteppedTo
    /\ Delta = 2
    /\ velocity_denominator = 6
    /\ velocity_numerator = 6
    /\ Len(buffer_forward) = 2
    /\ last.outcome = "ok"

\* C14 as stated: read right after a step, the `state` accessor yields the
\* slice the step returned
C14_StateIsReturnedHead ==
    (last.op = "step" /\ last.outcome = "ok") => State = last.ret

\* C15: a target-driven step onto the cursor's own position returns what the
\* target-driven step right before it returned, or the initial head when it
\* is the first call after construction
C15_ZeroVelocityStable ==
    [][(/\ last'.op = "step" /\ last'.hasTo
        /\ last'.to = index
        /\ (SteppedTo \/ last.op = "init"))
       => last'.ret = (IF last.op = "init" THEN State ELSE last.ret)
      ]_vars

\* standing still while Backward after a backward move: the backward head again
C15_Witness ==
    /\ SteppedTo
    /\ Delta = 0
    /\ last.outcome = "ok"
    /\ ~forward
    /\ last.preNum < 0
    /\ Len(buffer_forward) > 0
    /\ last.ret = buffer_backward[1]
    /\ last.ret # buffer_forward[1]

\* C16: a target-driven step returns the forward queue's head when it moves
\* up and the backward queue's head when it moves down, whatever direction
\* and velocity were held before
C16_MoveSignPicksQueue ==
    SteppedTo =>
        /\ (Delta > 0) => last.ret = HeadOf(buffer_forward)
        /\ (Delta < 0) => last.ret = HeadOf(buffer_backward)

\* a move up made while the direction flag says Backward
C16_Witness ==
    /\ SteppedTo
    /\ Delta > 0
    /\ ~forward
    /\ last.outcome = "ok"
    /\ Len(buffer_backward) > 0
    /\ last.ret = buffer_forward[1]
    /\ last.ret # buffer_backward[1]

-----------------------------------------------------------------------------
(* Properties of construct_encoder_config *)

\* C20 as stated: whatever calls were made, the shared table holds its
\* initial values, and a call that returns yields what its arguments alone
\* determine from those values
C20_DefaultsUnchanged ==
    /\ encoder_config_options = DefaultEncoderConfigOptions
    /\ (lastConfig.op = "construct_encoder_config" /\ lastConfig.outcome = "ok") =>
           lastConfig.returned =
               ConfigLoop(DefaultEncoderConfigOptions[lastConfig.encoder],
                          lastConfig.user_specified_config, 0).encoder_config

-----------------------------------------------------------------------------
(* Properties of main *)

ConfigurationErrors ==
    {"EncoderSelectionError", "UnrecognizedEncoderConfigError",
     "MalformedConfigurationError"}

\* the command line names an unknown encoder, a key the encoder does not
\* recognize, or a key/value list of odd length
BadConfiguration(a) ==
    \/ a.encoder \notin Encoders
    \/ Len(a.encoder_config) % 2 = 1
    \/ \E i \in 1..Len(a.encoder_config) :
          /\ i % 2 = 1
          /\ a.encoder_config[i] \notin
                 {k \in OptionKeys : DefaultEncoderConfigOptions[a.encoder][k] # None}

\* no transcode or slice producer has run, nothing was appended to the
\* manifest, no cached operation was entered and nothing was concatenated
NoWorkDone ==
    /\ \A fp \in Fingerprints : invocations[fp] = 0 /\ manifest[fp] = <<>>
    /\ lastCache = NoCacheCall
    /\ ~constructed
    /\ concatenated = <<>>

\* C11: in a run of main whose command line has a bad configuration, main
\* ends with a configuration error at construct_encoder_config, and in no
\* state of the run has any transcode, slice, manifest append or
\* concatenation happened
C11_ConfigErrorsFirst ==
    (pc # "parse_args" /\ BadConfiguration(args)) =>
        /\ NoWorkDone
        /\ pc \in {"construct_encoder_config", "raised"}
        /\ pc = "raised" => raised \in ConfigurationErrors

\* a run with encoder h264 and option unknown_opt, ended by the error
C11_Witness ==
    /\ pc = "raised"
    /\ raised = "UnrecognizedEncoderConfigError"
    /\ args.encoder = "h264"
    /\ Len(args.encoder_config) = 2
    /\ args.encoder_config[1] = "unknown_opt"
    /\ NoWorkDone

\* C18: for n_superframes >= 1, concat_videos is called once, when the loop
\* over the timeline is over, with a list of exactly n_superframes frames:
\* the fresh sequencer's forward head, then per timeline target, in order, the
\* head step(to=target) returned: the forward ring at the target after a
\* move up, the backward ring at the target after a move down, the previous
\* frame again when the target is the cursor
C18_FrameListAssembly ==
    concatenated # <<>> =>
        /\ Len(concatenated) = 1
        /\ pc = "done"
        /\ LET frames == concatenated[1]
               locs == timeline.locations
               NF == Len(ctor.forward)
               NB == Len(ctor.backward)
           IN  /\ Len(frames) = args.n_superframes
               /\ Len(locs) = args.n_superframes - 1
               /\ frames[1] = ctor.forward[1]
               /\ \A k \in 1..Len(locs) :
                      LET prev == IF k = 1 THEN 0 ELSE locs[k - 1]
                      IN  frames[k + 1] =
                              IF locs[k] > prev
                              THEN ctor.forward[(locs[k] % NF) + 1]
                              ELSE IF locs[k] < prev
                              THEN ctor.backward[((NB - 1 - locs[k]) % NB) + 1]
                              ELSE frames[k]
               /\ Len(locs) > 0 =>
                      /\ SteppedTo
                      /\ last.to = locs[Len(locs)]
                      /\ index = locs[Len(locs)]

\* a list of five frames that went up the forward source and came back down
\* the backward source
C18_Witness ==
    /\ pc = "done"
    /\ Len(concatenated) = 1
    /\ args.n_superframes = 5
    /\ args.fpath_in_forward # args.fpath_in_backward
    /\ Len(concatenated[1]) = 5
    /\ \E j, k \in 2..5 :
          /\ j < k
          /\ concatenated[1][j][1] = args.fpath_in_forward
          /\ concatenated[1][j] # concatenated[1][1]
          /\ concatenated[1][k][1] = args.fpath_in_backward

-----------------------------------------------------------------------------
(* Properties of the two pipelines run side by side *)

BothDone == \A p \in Pipelines : pipe[p].pc = "done"

\* what the two pipelines left behind
PipeResult ==
    [manifest |-> manifest, invocations |-> invocations,
     slices_forward |-> pipe["forward"].slicer.out,
     slices_backward |-> pipe["backward"].slicer.out]

\* what main's sequential order leaves behind from the same start
SequentialResult ==
    SequentialRun(pipe["forward"].fpath_in, pipe["backward"].fpath_in,
                  pipe["forward"].gop_size, pipe["forward"].superframe_size, loaded)

=============================================================================
